---- MODULE Spec2Model ----
(***************************************************************************)
(* Model of src/main/python/snowfall/annualExceedence.py: the annual       *)
(* exceedence calculator (main) and its entry point (__main__).            *)
(*                                                                         *)
(* Strings are sequences of one-character strings, so that the regular     *)
(* expression, split('-'), int() and float() are computed on characters.   *)
(* Amounts are integers in millionths (1.0 is 1000000); a probability is   *)
(* the pair num/den of the float division the code performs.               *)
(***************************************************************************)
EXTENDS Integers, Sequences, FiniteSets, Bags, TLC

\* ------------------------------------------------------------------ bounds
\* data rows the reader yields after the header
MaxRows == 4
\* rows are read only while the per-day ladder they imply stays this short
MaxBins == 1700

\* ---------------------------------------------------------------- constants
\* one unit of amount, in millionths
One == 1000000
\* "ignore days without any snowfall": date_data < 0.01
Measurable == 10000
\* round(bin * step * 100000.0) / 100000.0 keeps five decimals
Grain == 10

\* ------------------------------------------------------------------ strings
Digits == {"0", "1", "2", "3", "4", "5", "6", "7", "8", "9"}

DigitVal(c) ==
  CASE c = "0" -> 0 [] c = "1" -> 1 [] c = "2" -> 2 [] c = "3" -> 3
    [] c = "4" -> 4 [] c = "5" -> 5 [] c = "6" -> 6 [] c = "7" -> 7
    [] c = "8" -> 8 [] c = "9" -> 9

IsDigitAt(s, i) == i >= 1 /\ i <= Len(s) /\ s[i] \in Digits

IsCharAt(s, i, c) == i >= 1 /\ i <= Len(s) /\ s[i] = c

AllDigits(s) == Len(s) > 0 /\ \A i \in 1..Len(s) : s[i] \in Digits

RECURSIVE DecimalValue(_)
DecimalValue(s) ==
  IF Len(s) = 0 THEN 0
  ELSE 10 * DecimalValue(SubSeq(s, 1, Len(s) - 1)) + DigitVal(s[Len(s)])

\* re.compile('\d{4}-\d{1,2}-\d{1,2}').match(s): anchored at the start only;
\* the result is the end of the match, 0 standing for None
date_expression_match(s) ==
  IF ~(\A i \in 1..4 : IsDigitAt(s, i)) \/ ~IsCharAt(s, 5, "-") THEN 0
  ELSE LET m == IF IsDigitAt(s, 6) /\ IsDigitAt(s, 7) /\ IsCharAt(s, 8, "-") THEN 2
                ELSE IF IsDigitAt(s, 6) /\ IsCharAt(s, 7, "-") THEN 1
                ELSE 0
       IN IF m = 0 \/ ~IsDigitAt(s, 7 + m) THEN 0
          ELSE IF IsDigitAt(s, 8 + m) THEN 8 + m ELSE 7 + m

\* str.split('-')
RECURSIVE split(_)
split(s) ==
  IF \A i \in 1..Len(s) : s[i] # "-" THEN <<s>>
  ELSE LET p == CHOOSE i \in 1..Len(s) :
                  s[i] = "-" /\ \A j \in 1..(i - 1) : s[j] # "-"
       IN <<SubSeq(s, 1, p - 1)>> \o split(SubSeq(s, p + 1, Len(s)))

\* int(text): ok is FALSE where int() raises ValueError
int(s) ==
  IF AllDigits(s) THEN [ok |-> TRUE, val |-> DecimalValue(s)]
  ELSE [ok |-> FALSE, val |-> 0]

\* position of the first '.', or Len(s) + 1
DotAt(s) ==
  IF \E i \in 1..Len(s) : s[i] = "."
  THEN CHOOSE i \in 1..Len(s) : s[i] = "." /\ \A j \in 1..(i - 1) : s[j] # "."
  ELSE Len(s) + 1

RECURSIVE Pow10(_)
Pow10(n) == IF n = 0 THEN 1 ELSE 10 * Pow10(n - 1)

\* float(text) for plain decimals of at most six places, in millionths;
\* ok is FALSE where float() raises ValueError
float(s) ==
  LET neg  == IsCharAt(s, 1, "-")
      body == IF neg THEN SubSeq(s, 2, Len(s)) ELSE s
      d    == DotAt(body)
      ip   == SubSeq(body, 1, d - 1)
      fp   == SubSeq(body, d + 1, Len(body))
      good == /\ Len(ip) + Len(fp) > 0
              /\ \A i \in 1..Len(ip) : ip[i] \in Digits
              /\ \A i \in 1..Len(fp) : fp[i] \in Digits
              /\ Len(fp) <= 6
      mag  == DecimalValue(ip) * One + DecimalValue(fp) * Pow10(6 - Len(fp))
  IN IF good THEN [ok |-> TRUE, val |-> IF neg THEN 0 - mag ELSE mag]
     ELSE [ok |-> FALSE, val |-> 0]

\* --------------------------------------------------------------- arithmetic
\* math.ceil(a / b) for a >= 0, b > 0
ceil(a, b) == (a + b - 1) \div b

\* round(x) for x = n / d >= 0: ties go to the even integer
round(n, d) ==
  LET q == n \div d
      r == n % d
  IN IF 2 * r < d THEN q
     ELSE IF 2 * r > d THEN q + 1
     ELSE IF q % 2 = 0 THEN q ELSE q + 1

SetMax(S) == CHOOSE x \in S : \A y \in S : y <= x

SetMin(S) == CHOOSE x \in S : \A y \in S : x <= y

RECURSIVE sum(_)
sum(s) == IF Len(s) = 0 THEN 0 ELSE s[1] + sum(Tail(s))

SeqMax(s) == SetMax({s[i] : i \in 1..Len(s)})

\* ------------------------------------------------------------- dictionaries
\* a dict is the sequence of its <<key, value>> items in insertion order
DictKeys(d) == {d[i][1] : i \in 1..Len(d)}

DictGet(d, k) == d[CHOOSE i \in 1..Len(d) : d[i][1] = k][2]

\* DictSet that leaves an existing key alone: the first write wins
DictSet_FirstWins(d, k, v) ==
  IF k \in DictKeys(d) THEN d ELSE Append(d, <<k, v>>)

\* d[k] = v: an existing key keeps its place
DictSet(d, k, v) ==
  IF k \in DictKeys(d)
  THEN [i \in 1..Len(d) |-> IF d[i][1] = k THEN <<k, v>> ELSE d[i]]
  ELSE Append(d, <<k, v>>)

\* ------------------------------------------------------------------- input
\* the date and data columns of the rows a CSV file may hold
HeaderRow == [date |-> <<"D", "A", "T", "E">>, value |-> <<"S", "N", "O", "W">>]

Feed ==
  { [date  |-> <<"2", "0", "2", "0", "-", "0", "9", "-", "0", "1">>,
     value |-> <<>>],
    [date  |-> <<"2", "0", "2", "0", "-", "0", "9", "-", "0", "1">>,
     value |-> <<"0", ".", "0", "1">>],
    [date  |-> <<"2", "0", "2", "1", "-", "0", "5", "-", "3", "1">>,
     value |-> <<"0", ".", "0", "0", "5">>],
    [date  |-> <<"2", "0", "2", "1", "-", "0", "9", "-", "0", "1">>,
     value |-> <<"0", ".", "0", "1">>],
    [date  |-> <<"2", "0", "2", "2", "-", "0", "5", "-", "3", "1">>,
     value |-> <<"0", ".", "0", "1">>],
    [date  |-> <<"2", "0", "2", "1", "-", "0", "8", "-", "3", "1">>,
     value |-> <<"2", ".", "5">>],
    [date  |-> <<"2", "0", "2", "1", "-", "0", "6", "-", "0", "1">>,
     value |-> <<"1", ".", "0">>],
    [date  |-> <<"1", "3", "/", "4", "5", "/", "2", "0", "2", "0">>,
     value |-> <<"1", ".", "0">>],
    [date  |-> <<"2", "0", "2", "1", "-", "0", "5", "-", "3", "1", "x">>,
     value |-> <<"0", ".", "5">>],
    [date  |-> <<"2", "0", "2", "1", "-", "0", "6", "-", "0", "1">>,
     value |-> <<"a", "b", "c">>] }

\* --step values, in millionths: the default 0.1 and 0.000006
Steps == {100000, 6}

\* --step left at its default
DefaultSteps == {100000}

\* -------------------------------------------------------------------- state
VARIABLES
  config,            \* step and verbose of parse_arguments()
  pc,                \* where the run is
  rows,              \* rows the csv reader has yielded so far
  headers,           \* header labels
  data,              \* dict: date string -> amount
  idx,               \* items of the running for loop already visited
  season,            \* season of the date visited last
  season_events,     \* dict: season -> list of measurable amounts
  season_start,      \* seasons with a 1 September record
  season_end,        \* seasons with a 31 May record
  full_seasons,
  min_season,
  max_season,
  yearbins,          \* sequence of total-amount buckets
  eventbins,         \* sequence of event-count buckets
  bins,              \* sequence of per-day buckets
  day_events_hist,   \* bucket -> count, then bucket -> probability
  year_amount_hist,
  day_amount_hist,
  exception,         \* the exception raised, "none" if none
  error_msg,         \* DataError.msg
  stdout,
  stderr

vars == <<config, pc, rows, headers, data, idx, season, season_events,
          season_start, season_end, full_seasons, min_season, max_season,
          yearbins, eventbins, bins, day_events_hist, year_amount_hist,
          day_amount_hist, exception, error_msg, stdout, stderr>>

ingestVars == <<rows, headers, data>>

segmentVars == <<season, season_events, season_start, season_end>>

windowVars == <<full_seasons, min_season, max_season>>

binVars == <<yearbins, eventbins, bins>>

histVars == <<day_events_hist, year_amount_hist, day_amount_hist>>

\* the state main starts in, for a step among steps
Start(steps) ==
  /\ config \in [step : steps, verbose : BOOLEAN]
  /\ pc = "read"
  /\ rows = <<>>
  /\ headers = <<>>
  /\ data = <<>>
  /\ idx = 0
  /\ season = 0
  /\ season_events = <<>>
  /\ season_start = {}
  /\ season_end = {}
  /\ full_seasons = {}
  /\ min_season = 0
  /\ max_season = 0
  /\ yearbins = <<>>
  /\ eventbins = <<>>
  /\ bins = <<>>
  /\ day_events_hist = EmptyBag
  /\ year_amount_hist = EmptyBag
  /\ day_amount_hist = EmptyBag
  /\ exception = "none"
  /\ error_msg = <<>>
  /\ stdout = <<>>
  /\ stderr = <<>>

Init == Start(Steps)

InitDefaultStep == Start(DefaultSteps)

\* Raise with no except clause taking DataError
Raise_Uncaught(exc) ==
  /\ exception' = exc
  /\ pc' = "traceback"

\* raise exc: DataError is caught by __main__, anything else ends the process
Raise(exc) ==
  /\ exception' = exc
  /\ pc' = IF exc = "DataError" THEN "except" ELSE "traceback"

\* print(..., file=stderr) under config['verbose']
Info(lines) == stderr' = IF config.verbose THEN stderr \o lines ELSE stderr

\* ---------------------------------------------------------------- ingestion
\* the first row the reader yields: the header
ReadHeader ==
  /\ pc = "read"
  /\ Len(headers) = 0
  /\ rows' = Append(rows, HeaderRow)
  /\ headers' = <<HeaderRow.date, HeaderRow.value>>
  /\ Info(<<"date column header", "data column header">>)
  /\ UNCHANGED <<config, pc, data, idx, segmentVars, windowVars, binVars,
                 histVars, exception, error_msg, stdout>>

\* a later row: check the date, store the amount
ReadRow(row) ==
  /\ pc = "read"
  /\ Len(headers) > 0
  /\ Len(rows) <= MaxRows
  /\ (date_expression_match(row.date) # 0 /\ float(row.value).ok)
       => ceil(float(row.value).val, config.step) <= MaxBins
  /\ rows' = Append(rows, row)
  /\ IF date_expression_match(row.date) = 0
     THEN /\ Raise("DataError")
          /\ error_msg' = <<"ERROR: expected date to have the format of YYYY-MM-DD but got ">>
                            \o row.date
          /\ UNCHANGED data
     ELSE IF Len(row.value) > 0
     THEN IF float(row.value).ok
          THEN /\ data' = DictSet(data, row.date, float(row.value).val)
               /\ UNCHANGED <<pc, exception, error_msg>>
          ELSE /\ Raise("ValueError")
               /\ UNCHANGED <<data, error_msg>>
     ELSE /\ data' = DictSet(data, row.date, 0)
          /\ UNCHANGED <<pc, exception, error_msg>>
  /\ UNCHANGED <<config, headers, idx, segmentVars, windowVars, binVars,
                 histVars, stdout, stderr>>

\* the reader is exhausted: the with block ends
EndOfFile ==
  /\ pc = "read"
  /\ pc' = "segment"
  /\ idx' = 0
  /\ UNCHANGED <<config, ingestVars, segmentVars, windowVars, binVars,
                 histVars, exception, error_msg, stdout, stderr>>

\* ------------------------------------------------------- season segmentation
\* SeasonOf with the comparison off by one: August opens the next season
SeasonOf_FromAugust(year, month) == IF month >= 8 THEN year + 1 ELSE year

\* winter is september through the following summer
SeasonOf(year, month) == IF month > 8 THEN year + 1 ELSE year

IsSeasonStart(month, day) == month = 9 /\ day = 1

IsSeasonEnd(month, day) == month = 5 /\ day = 31

\* season_events[season].append(date_data), creating the list when missing
AppendEvent(events, s, date_data) ==
  DictSet(events, s,
          Append(IF s \in DictKeys(events) THEN DictGet(events, s) ELSE <<>>,
                 date_data))

\* one pass of the loop over data.keys()
SegmentDate ==
  /\ pc = "segment"
  /\ idx < Len(data)
  /\ LET string_date == data[idx + 1][1]
         date_data   == data[idx + 1][2]
         date        == split(string_date)
         year        == int(date[1])
         month       == int(date[2])
         day         == int(date[3])
         s           == SeasonOf(year.val, month.val)
     IN IF ~(year.ok /\ month.ok /\ day.ok)
        THEN /\ Raise("ValueError")
             /\ UNCHANGED <<idx, segmentVars>>
        ELSE /\ idx' = idx + 1
             /\ season' = s
             /\ season_start' = IF IsSeasonStart(month.val, day.val)
                                THEN season_start \cup {s} ELSE season_start
             /\ season_end' = IF IsSeasonEnd(month.val, day.val)
                              THEN season_end \cup {s} ELSE season_end
             /\ season_events' = IF date_data < Measurable THEN season_events
                                 ELSE AppendEvent(season_events, s, date_data)
             /\ UNCHANGED <<pc, exception>>
  /\ UNCHANGED <<config, ingestVars, windowVars, binVars, histVars,
                 error_msg, stdout, stderr>>

\* FullSeasons taking either marker for a full season
FullSeasons_EitherMarker(starts, ends) == starts \cup ends

\* seasons where data exists for both the start and end dates
FullSeasons(starts, ends) == starts \cap ends

\* full_seasons, min_season, max_season: min() of an empty set raises
ReportingWindow ==
  /\ pc = "segment"
  /\ idx = Len(data)
  /\ full_seasons' = FullSeasons(season_start, season_end)
  /\ IF full_seasons' = {}
     THEN /\ Raise("ValueError")
          /\ UNCHANGED <<min_season, max_season>>
     ELSE /\ min_season' = SetMin(full_seasons')
          /\ max_season' = SetMax(full_seasons')
          /\ pc' = "bins"
          /\ UNCHANGED exception
  /\ UNCHANGED <<config, ingestVars, idx, segmentVars, binVars, histVars,
                 error_msg, stdout, stderr>>

\* ------------------------------------------------------------------ buckets
\* range(0, int(ceil(max(bin_estimate_totals))) + 1)
YearBins(totals) == [i \in 1..(ceil(SeqMax(totals), One) + 1) |-> i - 1]

\* range(1, max(bin_estimate_counts) + 1)
EventBins(counts) == [i \in 1..SeqMax(counts) |-> i]

\* round(bin * step * 100000.0) / 100000.0
DayBin(bin, step) == Grain * round(bin * step, Grain)

\* one bucket per bin in range(1, int(ceil(max(bin_estimate_max) / step) + 1))
DayBins(maxes, step) == [bin \in 1..ceil(SeqMax(maxes), step) |-> DayBin(bin, step)]

\* the three bucket ladders, from every season that has events;
\* max() of an empty list raises
BucketDomains ==
  /\ pc = "bins"
  /\ LET n      == Len(season_events)
         counts == [k \in 1..n |-> Len(season_events[k][2])]
         totals == [k \in 1..n |-> sum(season_events[k][2])]
         maxes  == [k \in 1..n |-> SeqMax(season_events[k][2])]
     IN IF n = 0
        THEN /\ Raise("ValueError")
             /\ UNCHANGED <<binVars, idx, stderr>>
        ELSE /\ yearbins' = YearBins(totals)
             /\ eventbins' = EventBins(counts)
             /\ bins' = DayBins(maxes, config.step)
             /\ Info(<<"seasons without events">>)
             /\ idx' = 0
             /\ pc' = "aggregate"
             /\ UNCHANGED exception
  /\ UNCHANGED <<config, ingestVars, segmentVars, windowVars, histVars,
                 error_msg, stdout>>

\* -------------------------------------------------------------- aggregation
\* hist[bin] = hist.get(bin, 0) + 1 for each bin of hits[lo..hi], in turn
RECURSIVE Increments(_, _, _)
Increments(hits, lo, hi) ==
  IF lo > hi THEN EmptyBag
  ELSE IF lo = hi THEN SetToBag({hits[lo]})
  ELSE LET mid == (lo + hi) \div 2
       IN Increments(hits, lo, mid) (+) Increments(hits, mid + 1, hi)

Count(hist, hits) == hist (+) Increments(hits, 1, Len(hits))

\* buckets of eventbins a season with these events increments
EventHits(ladder, events) == SelectSeq(ladder, LAMBDA bin : Len(events) >= bin)

\* buckets of yearbins a season with these events increments
TotalHits(ladder, events) == SelectSeq(ladder, LAMBDA bin : sum(events) > bin * One)

\* buckets of bins a season with these events increments: once for a bucket
\* some amount reaches (break after the first)
DayHits(ladder, events) ==
  SelectSeq(ladder, LAMBDA bin : \E i \in 1..Len(events) : events[i] >= bin)

\* one pass of the loop over season_events.keys()
AggregateSeason ==
  /\ pc = "aggregate"
  /\ idx < Len(season_events)
  /\ idx' = idx + 1
  /\ LET s      == season_events[idx + 1][1]
         events == season_events[idx + 1][2]
     IN IF s \notin full_seasons
        THEN /\ Info(<<"not a full weather year">>)
             /\ UNCHANGED histVars
        ELSE /\ day_events_hist' = Count(day_events_hist, EventHits(eventbins, events))
             /\ year_amount_hist' = Count(year_amount_hist, TotalHits(yearbins, events))
             /\ day_amount_hist' = Count(day_amount_hist, DayHits(bins, events))
             /\ UNCHANGED stderr
  /\ UNCHANGED <<config, pc, ingestVars, segmentVars, windowVars, binVars,
                 exception, error_msg, stdout>>

\* ------------------------------------------------------------ normalization
\* TotalYears counting the labels from min to max
TotalYears_CountsLabels(maxs, mins) == maxs - mins + 1

\* float(max_season - min_season)
TotalYears(maxs, mins) == maxs - mins

\* float(hist[bin]) / total_years for every bin
Normalized(hist, total_years) ==
  [bin \in DOMAIN hist |-> [num |-> hist[bin], den |-> total_years]]

\* lines 190-211: divide the three histograms and return them
Normalize ==
  /\ pc = "aggregate"
  /\ idx = Len(season_events)
  /\ LET total_years == TotalYears(max_season, min_season)
         empty == /\ day_events_hist = EmptyBag
                  /\ year_amount_hist = EmptyBag
                  /\ day_amount_hist = EmptyBag
     IN /\ Info(<<"seasons of data range">>)
        /\ IF total_years = 0 /\ ~empty
           THEN /\ Raise("ZeroDivisionError")
                /\ UNCHANGED histVars
           ELSE /\ day_events_hist' = Normalized(day_events_hist, total_years)
                /\ year_amount_hist' = Normalized(year_amount_hist, total_years)
                /\ day_amount_hist' = Normalized(day_amount_hist, total_years)
                /\ pc' = "returned"
                /\ UNCHANGED exception
  /\ UNCHANGED <<config, ingestVars, idx, segmentVars, windowVars, binVars,
                 error_msg, stdout>>

\* ------------------------------------------------------------------- output
TitleLine(block) == [kind |-> "title", block |-> block]

BlankLine == [kind |-> "blank"]

\* the "probability,bucket" lines of one dictionary: none when it is empty
DataLines(block, hist) ==
  IF DOMAIN hist = {} THEN <<>>
  ELSE <<[kind |-> "data", block |-> block, lines |-> hist]>>

PrintEvents ==
  /\ pc = "returned"
  /\ stdout' = stdout \o <<TitleLine(1)>> \o DataLines(1, day_events_hist)
                      \o <<BlankLine>>
  /\ pc' = "totals"
  /\ UNCHANGED <<config, ingestVars, idx, segmentVars, windowVars, binVars,
                 histVars, exception, error_msg, stderr>>

PrintTotals ==
  /\ pc = "totals"
  /\ stdout' = stdout \o <<TitleLine(2)>> \o DataLines(2, year_amount_hist)
                      \o <<BlankLine>>
  /\ pc' = "daily"
  /\ UNCHANGED <<config, ingestVars, idx, segmentVars, windowVars, binVars,
                 histVars, exception, error_msg, stderr>>

PrintDaily ==
  /\ pc = "daily"
  /\ stdout' = stdout \o <<TitleLine(3)>> \o DataLines(3, day_amount_hist)
  /\ pc' = "done"
  /\ UNCHANGED <<config, ingestVars, idx, segmentVars, windowVars, binVars,
                 histVars, exception, error_msg, stderr>>

\* except DataError as error: print( error.msg )
PrintError ==
  /\ pc = "except"
  /\ stdout' = Append(stdout, [kind |-> "error", msg |-> error_msg])
  /\ pc' = "done"
  /\ UNCHANGED <<config, ingestVars, idx, segmentVars, windowVars, binVars,
                 histVars, exception, error_msg, stderr>>

Next ==
  \/ ReadHeader
  \/ \E row \in Feed : ReadRow(row)
  \/ EndOfFile
  \/ SegmentDate
  \/ ReportingWindow
  \/ BucketDomains
  \/ AggregateSeason
  \/ Normalize
  \/ PrintEvents
  \/ PrintTotals
  \/ PrintDaily
  \/ PrintError

\* runs with any of the steps
Spec == Init /\ [][Next]_vars

\* runs with the default step
SpecDefaultStep == InitDefaultStep /\ [][Next]_vars

\* =================================================================== claims
\* the data rows read so far are rows[2..Len(rows)]; rows[1] is the header
DataRowIndices == 2..Len(rows)

\* YYYY-MM-DD in full: four digits, '-', one or two digits, '-', one or two
\* digits, and nothing else
IsYMD(s) ==
  LET p == split(s)
  IN /\ Len(p) = 3
     /\ AllDigits(p[1]) /\ Len(p[1]) = 4
     /\ AllDigits(p[2]) /\ Len(p[2]) \in {1, 2}
     /\ AllDigits(p[3]) /\ Len(p[3]) \in {1, 2}

\* year, month and day written in a stored date string
Ymd(s) ==
  LET p == split(s)
  IN [year |-> int(p[1]).val, month |-> int(p[2]).val, day |-> int(p[3]).val]

\* main has returned its three dictionaries to __main__
Returned == pc \in {"returned", "totals", "daily"} \/ (pc = "done" /\ exception = "none")

\* the events recorded for a season, none when it has no entry
EventsOf(s) == IF s \in DictKeys(season_events) THEN DictGet(season_events, s) ELSE <<>>

Range(seq) == {seq[i] : i \in 1..Len(seq)}

CountAt(hist, bin) == IF bin \in DOMAIN hist THEN hist[bin] ELSE 0

\* C1: once a data row whose date fails the format check has been read, the
\* run is in the DataError handler or finished with that error, and standard
\* output holds nothing but the error message: no title line and no histogram
\* line of any block, before or after the error
C1_MalformedDateAborts ==
  (\E i \in DataRowIndices : date_expression_match(rows[i].date) = 0) =>
    /\ exception = "DataError"
    /\ pc \in {"except", "done"}
    /\ \A j \in 1..Len(stdout) : stdout[j].kind = "error"
    /\ pc = "except" => stdout = <<>>
    /\ pc = "done" =>
         /\ Len(stdout) = 1
         /\ \E i \in DataRowIndices :
              /\ date_expression_match(rows[i].date) = 0
              /\ stdout[1].msg = <<"ERROR: expected date to have the format of YYYY-MM-DD but got ">>
                                   \o rows[i].date

\* a malformed date after a well-formed row has ended the run with the message
C1_Witness ==
  /\ pc = "done"
  /\ exception = "DataError"
  /\ Len(rows) >= 3
  /\ Len(data) >= 1
  /\ Len(stdout) = 1

\* C2: when every data row read has a well-formed date (and a numeric or
\* empty value), the run does not fail unless the full-season set is empty
C2_WellFormedRunsComplete ==
  ( /\ pc = "traceback"
    /\ \A i \in DataRowIndices :
         /\ IsYMD(rows[i].date)
         /\ float(rows[i].value).ok \/ Len(rows[i].value) = 0 )
  => season_start \cap season_end = {}

\* C3: in each returned histogram every probability lies in [0,1]
C3_ProbabilityInUnitInterval ==
  Returned =>
    \A hist \in {day_events_hist, year_amount_hist, day_amount_hist} :
      \A bin \in DOMAIN hist :
        hist[bin].num >= 0 /\ hist[bin].num <= hist[bin].den

\* a histogram over a ladder is non-increasing and present on a prefix
NonIncreasing(hist, ladder) ==
  /\ \A b1, b2 \in DOMAIN hist :
       b1 < b2 => hist[b1].num * hist[b2].den >= hist[b2].num * hist[b1].den
  /\ \A b2 \in DOMAIN hist : \A b1 \in Range(ladder) : b1 < b2 => b1 \in DOMAIN hist

\* C4: each returned histogram is non-increasing in the bucket threshold,
\* and a present bucket has every smaller bucket of its domain present
C4_MonotoneNonIncreasing ==
  Returned =>
    /\ NonIncreasing(day_events_hist, eventbins)
    /\ NonIncreasing(year_amount_hist, yearbins)
    /\ NonIncreasing(day_amount_hist, bins)

\* C5: every date string stored in the mapping is YYYY-MM-DD in full, and a
\* row whose date is not has raised the malformed-date error
C5_StoredDatesAreYMD ==
  /\ \A i \in 1..Len(data) : IsYMD(data[i][1])
  /\ (\E i \in DataRowIndices : ~IsYMD(rows[i].date)) => exception = "DataError"

C7_CountsFullSeasonsOnce ==
  (pc = "aggregate" /\ idx = Len(season_events)) =>
    /\ DOMAIN day_events_hist \subseteq Range(eventbins)
    /\ DOMAIN year_amount_hist \subseteq Range(yearbins)
    /\ DOMAIN day_amount_hist \subseteq Range(bins)
    /\ \A b \in Range(eventbins) :
         CountAt(day_events_hist, b) =
           Cardinality({s \in full_seasons : Len(EventsOf(s)) >= b})
    /\ \A b \in Range(yearbins) :
         CountAt(year_amount_hist, b) =
           Cardinality({s \in full_seasons : sum(EventsOf(s)) > b * One})
    /\ \A b \in Range(bins) :
         CountAt(day_amount_hist, b) =
           Cardinality({s \in full_seasons :
                          \E i \in 1..Len(EventsOf(s)) : EventsOf(s)[i] >= b})

LastRowWith(date) ==
  CHOOSE i \in DataRowIndices :
    /\ rows[i].date = date
    /\ \A j \in DataRowIndices : rows[j].date = date => j <= i

RecordDates == {Ymd(data[i][1]) : i \in 1..Len(data)}

\* C9: the full-season set is season_start /\ season_end, and a label is in
\* it iff the data has a record dated 1 September of the year before and a
\* record dated 31 May of the label year, whatever their values
C9_FullIffBothMarkers ==
  (pc \in {"bins", "aggregate"} \/ Returned) =>
    LET dated  == RecordDates
        labels == UNION {{d.year, d.year + 1} : d \in dated}
    IN /\ full_seasons = season_start \cap season_end
       /\ full_seasons \subseteq labels
       /\ \A s \in labels :
            s \in full_seasons <=>
              /\ [year |-> s - 1, month |-> 9, day |-> 1] \in dated
              /\ [year |-> s, month |-> 5, day |-> 31] \in dated

\* a full season whose marker records are not measurable, beside a label
\* that is not full
C9_Witness ==
  /\ Returned
  /\ \E s \in full_seasons :
       \E i, j \in 1..Len(data) :
         /\ Ymd(data[i][1]) = [year |-> s - 1, month |-> 9, day |-> 1]
         /\ Ymd(data[j][1]) = [year |-> s, month |-> 5, day |-> 31]
         /\ data[i][2] = 0
         /\ data[j][2] < Measurable
  /\ \E d \in RecordDates : {d.year, d.year + 1} \ full_seasons # {}

\* the season the rule gives a date of month 1..12
RuleSeason(s) ==
  LET d == Ymd(s)
  IN IF d.month \in {9, 10, 11, 12} THEN d.year + 1 ELSE d.year

\* C10: while the dates are visited, the date visited last got season
\* year + 1 for months 9..12 and year for months 1..8, and the season
\* records hold exactly the amounts >= 0.01 visited so far, in order, each
\* under the season of its date
C10_SeasonAssignment ==
  (pc = "segment" /\ \A i \in 1..idx : Ymd(data[i][1]).month \in 1..12) =>
    LET rule == {<<data[i][1], RuleSeason(data[i][1])>> : i \in 1..idx}
        RuleEvents(s) ==
          LET kept == SelectSeq(SubSeq(data, 1, idx),
                                LAMBDA item : item[2] >= Measurable /\ <<item[1], s>> \in rule)
          IN [k \in 1..Len(kept) |-> kept[k][2]]
    IN /\ idx > 0 => <<data[idx][1], season>> \in rule
       /\ \A k \in 1..Len(season_events) :
            /\ season_events[k][2] # <<>>
            /\ season_events[k][2] = RuleEvents(season_events[k][1])
       /\ \A i \in 1..idx :
            data[i][2] >= Measurable =>
              \E k \in 1..Len(season_events) : <<data[i][1], season_events[k][1]>> \in rule

\* an August and a September amount are stored, a smaller amount is not
C10_Witness ==
  /\ pc = "segment"
  /\ idx = Len(data)
  /\ \E i, j, k \in 1..idx :
       /\ Ymd(data[i][1]).month = 8 /\ data[i][2] >= Measurable
       /\ Ymd(data[j][1]).month = 9 /\ data[j][2] >= Measurable
       /\ data[k][2] < Measurable
  /\ Ymd(data[idx][1]).month = 8

====
